---- MODULE Spec2Model ----
(***************************************************************************)
(* BoxMeOut Stella: settlement core of a binary prediction market.         *)
(*                                                                         *)
(* Three Soroban contracts are modelled:                                   *)
(*   - OracleManager    (src/.../oracle.rs)                                *)
(*   - PredictionMarket (src/.../market.rs)                                *)
(*   - AMM              (src/.../amm.rs, src/.../helpers.rs)               *)
(*                                                                         *)
(* Every contract entry point is one action.  A Soroban invocation is a    *)
(* transaction: a panic or an Err return rolls back every write of the     *)
(* call.  A failing call therefore leaves every variable unchanged; for    *)
(* each entry point X the operator X_result gives the outcome of a call in *)
(* the current state ("Ok" or the panic message / error), and the action X *)
(* is the successful call.  Entry points whose body is todo!() always      *)
(* panic and are not modelled.  The one failing call that is a step is a   *)
(* claim aborted by the token transfer: it is recorded in the history      *)
(* variable transfer_failed and writes what the aborted call leaves behind.*)
(*                                                                         *)
(* One market identifier is modelled: each contract keeps its per-market   *)
(* state under keys that contain the market identifier, and no entry point *)
(* reads or writes the keys of another market.                             *)
(***************************************************************************)
EXTENDS Integers, Sequences, FiniteSets, TLC

\* ------------------------------------------------------------------------
\* Bounds of the model
\* ------------------------------------------------------------------------
\* last instant of the ledger clock
MaxTime == 2
\* largest consensus threshold passed to OracleManager.initialize
MaxThreshold == 2
\* tokens that may be minted to the market escrow
MaxSupply == 14
\* trades recorded per pool
MaxTrades == 2
\* liquidity calls (add_liquidity, remove_liquidity) of a behaviour
MaxLpCalls == 2
\* longest sequence of trades of the trading specification
MaxSwaps == 3
\* max_liquidity_cap handed to initialize of the AMM
MaxLiquidityCap == 2200

\* the largest values of the integer types u128 and i128, scaled to 24 and 23
\* bits so that the products of the wide inputs below cross them
MaxU128 == 16777215
MaxI128 == 8388607

Users == {"u1", "u2"}
\* the oracle nodes, and those of them that attest in the market specification
OracleNodes == {"o1", "o2", "o3", "o4"}
Oracles == {"o1", "o2"}
\* token accounts: the market contract (escrow), the AMM contract, the pool
\* creator and the users
Escrow == "market"
Amm == "amm"
Creator == "creator"
Provider == "lp"
Accounts == {Escrow, Amm, Creator, Provider} \cup Users

\* Inputs offered to the entry points
Outcomes == {0, 1}
AttestationResults == {0, 1, 2}
Thresholds == 1..MaxThreshold
PredictionAmounts == {5}
WinnerTotals == {0, 10}
LoserTotals == {5}
MintAmounts == {7}
\* inputs of the payout specification
ClaimAmounts == {-5, 0, 1, 500}
ClaimWinners == {-10, 0, 1000}
ClaimLosers == {20, 500}
ClaimMints == {1000}
Claimants == {"u1"}
\* inputs of the wide-amount specification: amounts whose products cross
\* the integer width beside amounts whose products stay below it
WideClaimAmounts == {500, 20000}
WideBuyAmounts == {600, 20000}
WideSellShares == {300}
WideAddAmounts == {100, 20000}
WideLiquidities == {2000, 10000}
WideRemoveTokens == {100}
\* inputs of the commit specification
CommitAmounts == {-1, 0, 5}
CommitMints == {5}
\* inputs of the AMM specification
Liquidities == {0, 1, 5, 2000}
BuyAmounts == {0, 2, 600}
SellShares == {0, 1, 50, 300}
MinBounds == {0, 200}
CreatorFunds == 2000 + 3
Providers == {Creator, Provider}
Traders == {"u1"}
AddAmounts == {0, 3, 100}
RemoveTokens == {0, 1, 100}
ProviderFunds == 100 + 3
\* reserves on which get_odds is evaluated beside the stored ones
OddsReserves == {0, 1, 2, 3, 626, 1599}

\* ------------------------------------------------------------------------
\* Program constants
\* ------------------------------------------------------------------------
STATE_OPEN == 0
STATE_CLOSED == 1
STATE_RESOLVED == 2
MaxOracles == 10
TRADING_FEE_BPS == 20

\* PredictionMarket.initialize stores the two deadlines; the model fixes
\* them relative to the last modelled instant.
closing_time == MaxTime - 1
resolution_time == MaxTime

\* An optional storage entry (Option<T>) is a sequence of length 0 or 1.
None == <<>>
Some(x) == <<x>>

VARIABLES
    \* ledger timestamp
    now,
    \* token contract (USDC): balances of the market escrow and of the users
    balance,
    \* OracleManager storage
    required_consensus, oracle_count, registered, vote, voters,
    \* PredictionMarket storage
    market_state, yes_pool, no_pool, prediction,
    winning_outcome, winner_shares, loser_shares,
    \* history: users one of whose claims was aborted by the token transfer
    transfer_failed,
    \* history: close_market has succeeded on this market; recorded by the
    \* lifecycle specification, left FALSE by the others
    closed_before,
    \* PredictionMarket storage: the commitments of the users and their count
    commitment, pending_count,
    \* AMM storage
    pool_exists, yes_reserve, no_reserve, pool_k, lp_supply, lp_balance,
    user_shares, trade_count,
    \* history: the last successful call of the AMM, its input and its
    \* return value; the number of liquidity calls
    last_call, lp_calls

oracleVars == <<required_consensus, oracle_count, registered, vote, voters>>
marketVars == <<market_state, yes_pool, no_pool, prediction,
                winning_outcome, winner_shares, loser_shares, closed_before,
                commitment, pending_count>>
ammVars == <<pool_exists, yes_reserve, no_reserve, pool_k, lp_supply, lp_balance,
             user_shares, trade_count, last_call, lp_calls>>
vars == <<now, balance, oracleVars, marketVars, transfer_failed, ammVars>>

\* ------------------------------------------------------------------------
\* Arithmetic of the target: i128 division truncates toward zero
\* ------------------------------------------------------------------------
Abs(x) == IF x < 0 THEN -x ELSE x

TruncDiv(a, b) ==
    IF (a < 0) = (b < 0) THEN Abs(a) \div Abs(b) ELSE -(Abs(a) \div Abs(b))

\* ------------------------------------------------------------------------
\* Token contract: transfer panics on a negative amount or on an
\* insufficient balance of the sender
\* ------------------------------------------------------------------------
TransferOk(from, amount) == amount >= 0 /\ balance[from] >= amount

Transfer(from, to, amount) ==
    [a \in Accounts |->
        IF from = to THEN balance[a]
        ELSE IF a = from THEN balance[a] - amount
        ELSE IF a = to THEN balance[a] + amount
        ELSE balance[a]]

Max(S) == CHOOSE x \in S : \A y \in S : y <= x

RECURSIVE SumOver(_, _)
SumOver(f, S) ==
    IF S = {} THEN 0
    ELSE LET x == CHOOSE y \in S : TRUE IN f[x] + SumOver(f, S \ {x})

\* tokens held by the market escrow and the users
TotalSupply == SumOver(balance, {Escrow} \cup Users)

\* ========================================================================
\* OracleManager (oracle.rs)
\* ========================================================================

\* initialize: stores the threshold and resets the oracle counter; it has no
\* guard against a second call
oracle_initialize(t) ==
    /\ required_consensus' = t
    /\ oracle_count' = 0
    /\ UNCHANGED <<registered, vote, voters>>
    /\ UNCHANGED <<now, balance, marketVars, transfer_failed, ammVars>>

register_oracle_result(o) ==
    IF oracle_count >= MaxOracles THEN "Maximum oracle limit reached"
    ELSE IF o \in registered THEN "Oracle already registered"
    ELSE "Ok"

register_oracle(o) ==
    /\ register_oracle_result(o) = "Ok"
    /\ registered' = registered \cup {o}
    /\ oracle_count' = oracle_count + 1
    /\ UNCHANGED <<required_consensus, vote, voters>>
    /\ UNCHANGED <<now, balance, marketVars, transfer_failed, ammVars>>

\* submit_attestation without its test of an earlier attestation
submit_attestation_result_repeat(o, r) ==
    IF o \notin registered THEN "Oracle not registered"
    ELSE IF r > 1 THEN "Invalid attestation result"
    ELSE "Ok"

\* submit_attestation without its test of the oracle's registration
submit_attestation_result_anyone(o, r) ==
    IF r > 1 THEN "Invalid attestation result"
    ELSE IF o \in DOMAIN vote THEN "Oracle already attested"
    ELSE "Ok"

submit_attestation_result(o, r) ==
    IF o \notin registered THEN "Oracle not registered"
    ELSE IF r > 1 THEN "Invalid attestation result"
    ELSE IF o \in DOMAIN vote THEN "Oracle already attested"
    ELSE "Ok"

\* submit_attestation storing the vote without listing the voter
submit_attestation_unlisted(o, r) ==
    /\ submit_attestation_result(o, r) = "Ok"
    /\ vote' = [x \in DOMAIN vote \cup {o} |-> IF x = o THEN r ELSE vote[x]]
    /\ UNCHANGED <<required_consensus, oracle_count, registered, voters>>
    /\ UNCHANGED <<now, balance, marketVars, transfer_failed, ammVars>>

submit_attestation(o, r) ==
    /\ submit_attestation_result(o, r) = "Ok"
    /\ vote' = [x \in DOMAIN vote \cup {o} |-> IF x = o THEN r ELSE vote[x]]
    /\ voters' = Append(voters, o)
    /\ UNCHANGED <<required_consensus, oracle_count, registered>>
    /\ UNCHANGED <<now, balance, marketVars, transfer_failed, ammVars>>

\* the loop of check_consensus: a missing vote reads as 0, and every vote
\* other than 1 counts as a NO vote
RECURSIVE CountVotes(_)
CountVotes(vs) ==
    IF vs = <<>> THEN [yes |-> 0, no |-> 0]
    ELSE LET rest == CountVotes(Tail(vs))
             v == IF Head(vs) \in DOMAIN vote THEN vote[Head(vs)] ELSE 0
         IN IF v = 1 THEN [rest EXCEPT !.yes = @ + 1]
            ELSE [rest EXCEPT !.no = @ + 1]

\* check_consensus deciding a tie for YES
check_consensus_tie ==
    LET threshold == required_consensus
        c == CountVotes(voters)
    IN IF Len(voters) < threshold THEN <<FALSE, 0>>
       ELSE IF c.yes >= threshold /\ c.yes >= c.no THEN <<TRUE, 1>>
       ELSE IF c.no >= threshold /\ c.no > c.yes THEN <<TRUE, 0>>
       ELSE <<FALSE, 0>>

\* check_consensus deciding on the votes that first filled the threshold
check_consensus_latched ==
    LET threshold == required_consensus
        c == CountVotes(SubSeq(voters, 1, threshold))
    IN IF Len(voters) < threshold THEN <<FALSE, 0>>
       ELSE IF c.yes >= threshold /\ c.yes > c.no THEN <<TRUE, 1>>
       ELSE IF c.no >= threshold /\ c.no > c.yes THEN <<TRUE, 0>>
       ELSE <<FALSE, 0>>

check_consensus ==
    LET threshold == required_consensus
        c == CountVotes(voters)
    IN IF Len(voters) < threshold THEN <<FALSE, 0>>
       ELSE IF c.yes >= threshold /\ c.yes > c.no THEN <<TRUE, 1>>
       ELSE IF c.no >= threshold /\ c.no > c.yes THEN <<TRUE, 0>>
       ELSE <<FALSE, 0>>

\* ========================================================================
\* PredictionMarket (market.rs)
\* ========================================================================

\* initialize: no guard against a second call; it rewrites the state, the
\* pools and the pending count and leaves the prediction records, the
\* commitments and the resolution keys alone
market_initialize ==
    /\ market_state' = STATE_OPEN
    /\ yes_pool' = 0
    /\ no_pool' = 0
    /\ pending_count' = 0
    /\ UNCHANGED <<prediction, winning_outcome, winner_shares, loser_shares,
                   closed_before, commitment>>
    /\ UNCHANGED <<now, balance, oracleVars, transfer_failed, ammVars>>

commit_prediction_result(user, amount) ==
    IF market_state # STATE_OPEN THEN "InvalidMarketState"
    ELSE IF now >= closing_time THEN "MarketClosed"
    ELSE IF amount <= 0 THEN "InvalidAmount"
    ELSE IF user \in DOMAIN commitment THEN "DuplicateCommit"
    ELSE IF ~TransferOk(user, amount) THEN "Token transfer failed"
    ELSE "Ok"

\* commit_prediction: the stake moves to the escrow, the commitment (its
\* amount and timestamp) is stored and the pending count grows by one
commit_prediction(user, amount) ==
    /\ commit_prediction_result(user, amount) = "Ok"
    /\ balance' = Transfer(user, Escrow, amount)
    /\ commitment' = [x \in DOMAIN commitment \cup {user} |->
                        IF x = user THEN [amount |-> amount, timestamp |-> now]
                        ELSE commitment[x]]
    /\ pending_count' = pending_count + 1
    /\ UNCHANGED <<market_state, yes_pool, no_pool, prediction, winning_outcome,
                   winner_shares, loser_shares, closed_before>>
    /\ UNCHANGED <<now, oracleVars, transfer_failed, ammVars>>

close_market_result ==
    IF now < closing_time THEN "Cannot close market before closing time"
    ELSE IF market_state # STATE_OPEN THEN "Market not in OPEN state"
    ELSE "Ok"

\* close_market; the history variable closed_before is set by the
\* specification that takes the step
close_market ==
    /\ close_market_result = "Ok"
    /\ market_state' = STATE_CLOSED
    /\ UNCHANGED <<yes_pool, no_pool, prediction, winning_outcome,
                   winner_shares, loser_shares, commitment, pending_count>>
    /\ UNCHANGED <<now, balance, oracleVars, transfer_failed, ammVars>>

\* resolve_market without its test of a market already resolved
resolve_market_result_unguarded ==
    IF now < resolution_time THEN "Cannot resolve market before resolution time"
    ELSE IF market_state = STATE_OPEN THEN "Cannot resolve market that is still OPEN"
    ELSE IF ~check_consensus[1] THEN "Oracle consensus not reached"
    ELSE IF check_consensus[2] > 1 THEN "Invalid oracle outcome"
    ELSE "Ok"

resolve_market_result ==
    IF now < resolution_time THEN "Cannot resolve market before resolution time"
    ELSE IF market_state = STATE_OPEN THEN "Cannot resolve market that is still OPEN"
    ELSE IF market_state = STATE_RESOLVED THEN "Market already resolved"
    ELSE IF ~check_consensus[1] THEN "Oracle consensus not reached"
    ELSE IF check_consensus[2] > 1 THEN "Invalid oracle outcome"
    ELSE "Ok"

\* the totals of resolve_market read from the reserves of the AMM
ResolveShares_reserves(final_outcome) ==
    IF final_outcome = 1 THEN <<yes_reserve, no_reserve>> ELSE <<no_reserve, yes_reserve>>

\* <<winner shares, loser shares>> of resolve_market
ResolveShares(final_outcome) ==
    IF final_outcome = 1 THEN <<yes_pool, no_pool>> ELSE <<no_pool, yes_pool>>

resolve_market ==
    /\ resolve_market_result = "Ok"
    /\ LET final_outcome == check_consensus[2] IN
        /\ winning_outcome' = Some(final_outcome)
        /\ winner_shares' = Some(ResolveShares(final_outcome)[1])
        /\ loser_shares' = Some(ResolveShares(final_outcome)[2])
    /\ market_state' = STATE_RESOLVED
    /\ UNCHANGED <<yes_pool, no_pool, prediction, closed_before, commitment,
                   pending_count>>
    /\ UNCHANGED <<now, balance, oracleVars, transfer_failed, ammVars>>

\* reveal_prediction.  Its body is missing from market.rs (todo!); it
\* follows the specification: the revealed amount is the committed one, it
\* is added to the pool of its outcome, the prediction record is stored and
\* the commitment leaves the pending ones.
reveal_prediction(user, outcome, amount) ==
    /\ market_state = STATE_OPEN
    /\ outcome <= 1
    /\ user \in DOMAIN commitment
    /\ commitment[user].amount = amount
    /\ yes_pool' = IF outcome = 1 THEN yes_pool + amount ELSE yes_pool
    /\ no_pool' = IF outcome = 1 THEN no_pool ELSE no_pool + amount
    /\ prediction' = [x \in DOMAIN prediction \cup {user} |->
                        IF x = user
                        THEN [outcome |-> outcome, amount |-> amount, claimed |-> FALSE]
                        ELSE prediction[x]]
    /\ commitment' = [x \in DOMAIN commitment \ {user} |-> commitment[x]]
    /\ pending_count' = pending_count - 1
    /\ UNCHANGED <<market_state, winning_outcome, winner_shares, loser_shares,
                   closed_before>>
    /\ UNCHANGED <<now, balance, oracleVars, transfer_failed, ammVars>>

\* payout arithmetic of claim_winnings
ClaimTotalPool == winner_shares[1] + (IF loser_shares = None THEN 0 ELSE loser_shares[1])

ClaimGross(u) == TruncDiv(prediction[u].amount * ClaimTotalPool, winner_shares[1])

\* checked_mul of the payout fails: the exact product leaves the range of i128
ClaimMulOverflow(u) ==
    \/ prediction[u].amount * ClaimTotalPool > MaxI128
    \/ prediction[u].amount * ClaimTotalPool < -MaxI128 - 1

\* a fee of one percent
ClaimFee_percent(u) == TruncDiv(ClaimGross(u), 100)

ClaimFee(u) == TruncDiv(ClaimGross(u), 10)

ClaimNet(u) == ClaimGross(u) - ClaimFee(u)

\* claim_winnings without its comparison of the record with the winning outcome
claim_winnings_result_any_outcome(u) ==
    IF market_state # STATE_RESOLVED THEN "Market not resolved"
    ELSE IF u \notin DOMAIN prediction THEN "No prediction found for user"
    ELSE IF prediction[u].claimed THEN "Winnings already claimed"
    ELSE IF winning_outcome = None THEN "Winning outcome not found"
    ELSE IF winner_shares = None THEN "Winner shares not found"
    ELSE IF winner_shares[1] = 0 THEN "No winners to claim"
    ELSE IF ClaimNet(u) = 0 THEN "Payout amount is zero"
    ELSE IF ~TransferOk(Escrow, ClaimNet(u)) THEN "Token transfer failed"
    ELSE "Ok"

\* claim_winnings multiplying without the overflow check
claim_winnings_result_wrapping(u) ==
    IF market_state # STATE_RESOLVED THEN "Market not resolved"
    ELSE IF u \notin DOMAIN prediction THEN "No prediction found for user"
    ELSE IF prediction[u].claimed THEN "Winnings already claimed"
    ELSE IF winning_outcome = None THEN "Winning outcome not found"
    ELSE IF prediction[u].outcome # winning_outcome[1]
        THEN "User did not predict winning outcome"
    ELSE IF winner_shares = None THEN "Winner shares not found"
    ELSE IF winner_shares[1] = 0 THEN "No winners to claim"
    ELSE IF ClaimNet(u) = 0 THEN "Payout amount is zero"
    ELSE IF ~TransferOk(Escrow, ClaimNet(u)) THEN "Token transfer failed"
    ELSE "Ok"

claim_winnings_result(u) ==
    IF market_state # STATE_RESOLVED THEN "Market not resolved"
    ELSE IF u \notin DOMAIN prediction THEN "No prediction found for user"
    ELSE IF prediction[u].claimed THEN "Winnings already claimed"
    ELSE IF winning_outcome = None THEN "Winning outcome not found"
    ELSE IF prediction[u].outcome # winning_outcome[1]
        THEN "User did not predict winning outcome"
    ELSE IF winner_shares = None THEN "Winner shares not found"
    ELSE IF winner_shares[1] = 0 THEN "No winners to claim"
    ELSE IF ClaimMulOverflow(u) THEN "Overflow in payout calculation"
    ELSE IF ClaimNet(u) = 0 THEN "Payout amount is zero"
    ELSE IF ~TransferOk(Escrow, ClaimNet(u)) THEN "Token transfer failed"
    ELSE "Ok"

\* the flag stored before the transfer
ClaimedAfter_early(u, transferred) == TRUE

\* the claimed flag stored by a call that got as far as the token transfer
ClaimedAfter(u, transferred) == IF transferred THEN TRUE ELSE prediction[u].claimed

\* claim_winnings taking the claimed amount out of the winner total
claim_winnings_drawdown(u) ==
    /\ claim_winnings_result(u) = "Ok"
    /\ balance' = Transfer(Escrow, u, ClaimNet(u))
    /\ prediction' = [prediction EXCEPT ![u].claimed = ClaimedAfter(u, TRUE)]
    /\ winner_shares' = Some(winner_shares[1] - prediction[u].amount)
    /\ UNCHANGED <<market_state, yes_pool, no_pool, winning_outcome,
                   loser_shares, closed_before, commitment, pending_count>>
    /\ UNCHANGED <<now, oracleVars, transfer_failed, ammVars>>

claim_winnings(u) ==
    \/ /\ claim_winnings_result(u) = "Ok"
       /\ balance' = Transfer(Escrow, u, ClaimNet(u))
       /\ prediction' = [prediction EXCEPT ![u].claimed = ClaimedAfter(u, TRUE)]
       /\ UNCHANGED <<market_state, yes_pool, no_pool, winning_outcome,
                      winner_shares, loser_shares, closed_before, commitment,
                   pending_count>>
       /\ UNCHANGED <<now, oracleVars, transfer_failed, ammVars>>
    \/ /\ claim_winnings_result(u) = "Token transfer failed"
       /\ prediction' = [prediction EXCEPT ![u].claimed = ClaimedAfter(u, FALSE)]
       /\ transfer_failed' = transfer_failed \cup {u}
       /\ UNCHANGED <<market_state, yes_pool, no_pool, winning_outcome,
                      winner_shares, loser_shares, closed_before, commitment,
                   pending_count>>
       /\ UNCHANGED <<now, balance, oracleVars, ammVars>>

\* test helpers, public entry points of the contract
test_set_prediction(u, outcome, amount) ==
    /\ prediction' = [x \in DOMAIN prediction \cup {u} |->
                        IF x = u
                        THEN [outcome |-> outcome, amount |-> amount, claimed |-> FALSE]
                        ELSE prediction[x]]
    /\ UNCHANGED <<market_state, yes_pool, no_pool, winning_outcome,
                   winner_shares, loser_shares, closed_before, commitment,
                   pending_count>>
    /\ UNCHANGED <<now, balance, oracleVars, transfer_failed, ammVars>>

test_setup_resolution(outcome, winner, loser) ==
    /\ market_state' = STATE_RESOLVED
    /\ winning_outcome' = Some(outcome)
    /\ winner_shares' = Some(winner)
    /\ loser_shares' = Some(loser)
    /\ UNCHANGED <<yes_pool, no_pool, prediction, closed_before, commitment,
                   pending_count>>
    /\ UNCHANGED <<now, balance, oracleVars, transfer_failed, ammVars>>

\* ========================================================================
\* AMM (amm.rs, helpers.rs)
\*
\* The entry points address the reserves of a pool through three key
\* schemes (pool_key, the tuple keys of helpers.rs, the *_PREFIX tuple
\* keys); the model keeps one pair of reserves per pool, as the tests do.
\* Amounts are u128; they stay below MaxU128 except in the specification of
\* the wide amounts.
\* ========================================================================

\* record of a call: entry point, caller, outcome, amount handed in, value returned
Call(op, who, outcome, amount, result) ==
    [op |-> op, who |-> who, outcome |-> outcome, amount |-> amount, result |-> result]

\* the overflow check that the build puts on every + and * of u128: the
\* call aborts when one of the exact results is above the largest u128
ArithmeticOverflow(exact) == \E x \in exact : x > MaxU128

\* exact results of the arithmetic of create_pool
CreateExact(initial_liquidity) ==
    {(initial_liquidity \div 2) * (initial_liquidity \div 2)}

\* create_pool without the check for an existing pool
create_pool_result_again(creator, initial_liquidity) ==
    IF initial_liquidity = 0 THEN "initial liquidity must be greater than 0"
    ELSE IF ~TransferOk(creator, initial_liquidity) THEN "Token transfer failed"
    ELSE "Ok"

create_pool_result(creator, initial_liquidity) ==
    IF pool_exists THEN "pool already exists"
    ELSE IF initial_liquidity = 0 THEN "initial liquidity must be greater than 0"
    ELSE IF ArithmeticOverflow(CreateExact(initial_liquidity)) THEN "arithmetic overflow"
    ELSE IF ~TransferOk(creator, initial_liquidity) THEN "Token transfer failed"
    ELSE "Ok"

create_pool(creator, initial_liquidity) ==
    /\ create_pool_result(creator, initial_liquidity) = "Ok"
    /\ yes_reserve' = initial_liquidity \div 2
    /\ no_reserve' = initial_liquidity \div 2
    /\ pool_k' = (initial_liquidity \div 2) * (initial_liquidity \div 2)
    /\ pool_exists' = TRUE
    /\ lp_supply' = initial_liquidity
    /\ lp_balance' = [x \in DOMAIN lp_balance \cup {creator} |->
                        IF x = creator THEN initial_liquidity ELSE lp_balance[x]]
    /\ balance' = Transfer(creator, Amm, initial_liquidity)
    /\ last_call' = Call("create_pool", creator, 0, initial_liquidity, initial_liquidity)
    /\ UNCHANGED <<user_shares, trade_count, lp_calls>>
    /\ UNCHANGED <<now, oracleVars, marketVars, transfer_failed>>

\* set_pool_reserves of helpers.rs: the reserves and their product
set_pool_reserves(yes, no) ==
    /\ yes_reserve' = yes
    /\ no_reserve' = no
    /\ pool_k' = yes * no

\* set_user_shares of helpers.rs
set_user_shares(user, outcome, shares) ==
    user_shares' = [user_shares EXCEPT ![user][outcome] = shares]

\* increment_trade_count of helpers.rs
increment_trade_count == trade_count' = trade_count + 1

BuyFee(amount) == (amount * TRADING_FEE_BPS) \div 10000

BuyAmountAfterFee(amount) == amount - BuyFee(amount)

\* buying an outcome pays into the opposite reserve and draws from its own
BuyReserveIn(outcome) == IF outcome = 1 THEN no_reserve ELSE yes_reserve

BuyReserveOut(outcome) == IF outcome = 1 THEN yes_reserve ELSE no_reserve

\* the shares of a buy rounded up
BuySharesOut_up(outcome, amount) ==
    (BuyAmountAfterFee(amount) * BuyReserveOut(outcome)
            + BuyReserveIn(outcome) + BuyAmountAfterFee(amount) - 1)
        \div (BuyReserveIn(outcome) + BuyAmountAfterFee(amount))

BuySharesOut(outcome, amount) ==
    (BuyAmountAfterFee(amount) * BuyReserveOut(outcome))
        \div (BuyReserveIn(outcome) + BuyAmountAfterFee(amount))

\* exact results of the products and sums of buy_shares and of the helpers
\* it calls
BuyExact(buyer, outcome, amount) ==
    {amount * TRADING_FEE_BPS,
     BuyAmountAfterFee(amount) * BuyReserveOut(outcome),
     BuyReserveIn(outcome) + BuyAmountAfterFee(amount),
     yes_reserve * no_reserve,
     (BuyReserveIn(outcome) + BuyAmountAfterFee(amount))
        * (BuyReserveOut(outcome) - BuySharesOut(outcome, amount)),
     user_shares[buyer][outcome] + BuySharesOut(outcome, amount)}

\* the paying reserve credited with the whole amount, fee included
BuyNewReserves_gross(outcome, amount) ==
    IF outcome = 1
    THEN <<yes_reserve - BuySharesOut(outcome, amount), no_reserve + amount>>
    ELSE <<yes_reserve + amount, no_reserve - BuySharesOut(outcome, amount)>>

\* <<new yes reserve, new no reserve>> of a buy
BuyNewReserves(outcome, amount) ==
    IF outcome = 1
    THEN <<yes_reserve - BuySharesOut(outcome, amount),
           no_reserve + BuyAmountAfterFee(amount)>>
    ELSE <<yes_reserve + BuyAmountAfterFee(amount),
           no_reserve - BuySharesOut(outcome, amount)>>

\* buy_shares without the slippage check
buy_shares_result_any_price(buyer, outcome, amount, min_shares) ==
    IF outcome > 1 THEN "outcome must be 0 (NO) or 1 (YES)"
    ELSE IF amount = 0 THEN "amount must be greater than 0"
    ELSE IF ~pool_exists THEN "pool does not exist"
    ELSE IF yes_reserve = 0 \/ no_reserve = 0 THEN "insufficient liquidity"
    ELSE IF BuyNewReserves(outcome, amount)[1] * BuyNewReserves(outcome, amount)[2]
                < yes_reserve * no_reserve
        THEN "invariant violation"
    ELSE "Ok"

buy_shares_result(buyer, outcome, amount, min_shares) ==
    IF outcome > 1 THEN "outcome must be 0 (NO) or 1 (YES)"
    ELSE IF amount = 0 THEN "amount must be greater than 0"
    ELSE IF ~pool_exists THEN "pool does not exist"
    ELSE IF yes_reserve = 0 \/ no_reserve = 0 THEN "insufficient liquidity"
    ELSE IF ArithmeticOverflow(BuyExact(buyer, outcome, amount)) THEN "arithmetic overflow"
    ELSE IF BuySharesOut(outcome, amount) < min_shares THEN "Slippage exceeded"
    ELSE IF BuyNewReserves(outcome, amount)[1] * BuyNewReserves(outcome, amount)[2]
                < yes_reserve * no_reserve
        THEN "invariant violation"
    ELSE "Ok"

buy_shares(buyer, outcome, amount, min_shares) ==
    /\ buy_shares_result(buyer, outcome, amount, min_shares) = "Ok"
    /\ set_pool_reserves(BuyNewReserves(outcome, amount)[1],
                         BuyNewReserves(outcome, amount)[2])
    /\ set_user_shares(buyer, outcome,
                       user_shares[buyer][outcome] + BuySharesOut(outcome, amount))
    /\ increment_trade_count
    /\ UNCHANGED <<pool_exists, lp_supply, lp_balance, lp_calls>>
    /\ last_call' = Call("buy_shares", buyer, outcome, amount, BuySharesOut(outcome, amount))
    /\ UNCHANGED <<now, balance, oracleVars, marketVars, transfer_failed>>

\* calculate_payout of helpers.rs: payout = reserve_out - k / (reserve_in + shares_in)
calculate_payout(yes, no, outcome, shares_in) ==
    LET k == yes * no IN
    IF outcome = 1
    THEN no - (k \div (yes + shares_in))
    ELSE yes - (k \div (no + shares_in))

SellPayout(outcome, shares) == calculate_payout(yes_reserve, no_reserve, outcome, shares)

SellFee(outcome, shares) == (SellPayout(outcome, shares) * TRADING_FEE_BPS) \div 10000

SellPayoutAfterFee(outcome, shares) == SellPayout(outcome, shares) - SellFee(outcome, shares)

\* exact results of the products and sums of sell_shares and of the helpers
\* it calls
SellExact(outcome, shares) ==
    {yes_reserve * no_reserve,
     (IF outcome = 1 THEN yes_reserve ELSE no_reserve) + shares,
     SellPayout(outcome, shares) * TRADING_FEE_BPS,
     ((IF outcome = 1 THEN yes_reserve ELSE no_reserve) + shares)
        * ((IF outcome = 1 THEN no_reserve ELSE yes_reserve)
                - SellPayout(outcome, shares))}

\* the paying reserve debited with the payout net of the fee
SellNewReserves_net(outcome, shares) ==
    IF outcome = 1
    THEN <<yes_reserve + shares, no_reserve - SellPayoutAfterFee(outcome, shares)>>
    ELSE <<yes_reserve - SellPayoutAfterFee(outcome, shares), no_reserve + shares>>

\* <<new yes reserve, new no reserve>> of a sale
SellNewReserves(outcome, shares) ==
    IF outcome = 1
    THEN <<yes_reserve + shares, no_reserve - SellPayout(outcome, shares)>>
    ELSE <<yes_reserve - SellPayout(outcome, shares), no_reserve + shares>>

\* sell_shares without the check of the seller's balance
sell_shares_result_unchecked(seller, outcome, shares, min_payout) ==
    IF outcome > 1 THEN "Invalid outcome: must be 0 (NO) or 1 (YES)"
    ELSE IF shares = 0 THEN "Shares execution amount must be positive"
    ELSE IF ~pool_exists THEN "Liquidity pool does not exist"
    ELSE IF SellPayoutAfterFee(outcome, shares) < min_payout THEN "Slippage exceeded"
    ELSE IF ~TransferOk(Amm, SellPayoutAfterFee(outcome, shares))
        THEN "Token transfer failed"
    ELSE "Ok"

sell_shares_result(seller, outcome, shares, min_payout) ==
    IF outcome > 1 THEN "Invalid outcome: must be 0 (NO) or 1 (YES)"
    ELSE IF shares = 0 THEN "Shares execution amount must be positive"
    ELSE IF ~pool_exists THEN "Liquidity pool does not exist"
    ELSE IF user_shares[seller][outcome] < shares THEN "Insufficient shares balance"
    ELSE IF ArithmeticOverflow(SellExact(outcome, shares)) THEN "arithmetic overflow"
    ELSE IF SellPayoutAfterFee(outcome, shares) < min_payout THEN "Slippage exceeded"
    ELSE IF ~TransferOk(Amm, SellPayoutAfterFee(outcome, shares))
        THEN "Token transfer failed"
    ELSE "Ok"

sell_shares(seller, outcome, shares, min_payout) ==
    /\ sell_shares_result(seller, outcome, shares, min_payout) = "Ok"
    /\ set_pool_reserves(SellNewReserves(outcome, shares)[1],
                         SellNewReserves(outcome, shares)[2])
    /\ set_user_shares(seller, outcome, user_shares[seller][outcome] - shares)
    /\ balance' = Transfer(Amm, seller, SellPayoutAfterFee(outcome, shares))
    /\ increment_trade_count
    /\ UNCHANGED <<pool_exists, lp_supply, lp_balance, lp_calls>>
    /\ last_call' = Call("sell_shares", seller, outcome, shares,
                        SellPayoutAfterFee(outcome, shares))
    /\ UNCHANGED <<now, oracleVars, marketVars, transfer_failed>>

\* LP balance of a provider: a missing entry reads as 0
LpBalance(provider) == IF provider \in DOMAIN lp_balance THEN lp_balance[provider] ELSE 0

\* add_liquidity.  The statements of amm.rs that compute yes_addition,
\* no_addition and lp_tokens_to_mint are missing from the file (sell_shares
\* statements stand in their place); these three amounts follow the
\* specification: shares proportional to the contribution, the deposit
\* split in the ratio of the reserves.
AddLpTokens(amount) == (amount * lp_supply) \div (yes_reserve + no_reserve)

AddYes(amount) == (amount * yes_reserve) \div (yes_reserve + no_reserve)

AddNo(amount) == amount - AddYes(amount)

\* exact results of the products and sums of add_liquidity
AddExact(provider, amount) ==
    {amount * lp_supply,
     amount * yes_reserve,
     (yes_reserve + AddYes(amount)) + (no_reserve + AddNo(amount)),
     (yes_reserve + AddYes(amount)) * (no_reserve + AddNo(amount)),
     lp_supply + AddLpTokens(amount),
     LpBalance(provider) + AddLpTokens(amount)}

\* add_liquidity without the check of the liquidity cap
add_liquidity_result_uncapped(provider, amount) ==
    IF amount = 0 THEN "liquidity amount must be positive"
    ELSE IF ~pool_exists THEN "pool does not exist"
    ELSE IF yes_reserve = 0 \/ no_reserve = 0 THEN "insufficient liquidity"
    ELSE IF ~TransferOk(provider, amount) THEN "Token transfer failed"
    ELSE "Ok"

add_liquidity_result(provider, amount) ==
    IF amount = 0 THEN "liquidity amount must be positive"
    ELSE IF ~pool_exists THEN "pool does not exist"
    ELSE IF yes_reserve = 0 \/ no_reserve = 0 THEN "insufficient liquidity"
    ELSE IF ArithmeticOverflow(AddExact(provider, amount)) THEN "arithmetic overflow"
    ELSE IF (yes_reserve + AddYes(amount)) + (no_reserve + AddNo(amount)) > MaxLiquidityCap
        THEN "exceeds max liquidity cap"
    ELSE IF ~TransferOk(provider, amount) THEN "Token transfer failed"
    ELSE "Ok"

\* the provider's LP balance overwritten with the minted tokens
MintLp_overwrite(provider, lp_tokens) ==
    [x \in DOMAIN lp_balance \cup {provider} |->
        IF x = provider THEN lp_tokens ELSE lp_balance[x]]

\* the LP ledger after lp_tokens are minted to the provider
MintLp(provider, lp_tokens) ==
    [x \in DOMAIN lp_balance \cup {provider} |->
        IF x = provider THEN LpBalance(provider) + lp_tokens ELSE lp_balance[x]]

add_liquidity(provider, amount) ==
    /\ lp_calls < MaxLpCalls
    /\ add_liquidity_result(provider, amount) = "Ok"
    /\ set_pool_reserves(yes_reserve + AddYes(amount), no_reserve + AddNo(amount))
    /\ lp_supply' = lp_supply + AddLpTokens(amount)
    /\ lp_balance' = MintLp(provider, AddLpTokens(amount))
    /\ balance' = Transfer(provider, Amm, amount)
    /\ last_call' = Call("add_liquidity", provider, 0, amount, AddLpTokens(amount))
    /\ lp_calls' = lp_calls + 1
    /\ UNCHANGED <<pool_exists, user_shares, trade_count>>
    /\ UNCHANGED <<now, oracleVars, marketVars, transfer_failed>>

\* the YES amount taken as a share of both reserves
RemoveYesAmount_total(lp_tokens) == (lp_tokens * (yes_reserve + no_reserve)) \div lp_supply

RemoveYesAmount(lp_tokens) == (lp_tokens * yes_reserve) \div lp_supply

RemoveNoAmount(lp_tokens) == (lp_tokens * no_reserve) \div lp_supply

\* exact results of the products and sums of remove_liquidity
RemoveExact(lp_tokens) ==
    {lp_tokens * yes_reserve,
     lp_tokens * no_reserve,
     RemoveYesAmount(lp_tokens) + RemoveNoAmount(lp_tokens),
     (yes_reserve - RemoveYesAmount(lp_tokens))
        * (no_reserve - RemoveNoAmount(lp_tokens))}

\* remove_liquidity without the check of the provider's LP balance
remove_liquidity_result_unowned(provider, lp_tokens) ==
    IF lp_tokens = 0 THEN "lp tokens must be positive"
    ELSE IF ~pool_exists THEN "pool does not exist"
    ELSE IF RemoveYesAmount(lp_tokens) = 0 \/ RemoveNoAmount(lp_tokens) = 0
        THEN "withdrawal amount too small"
    ELSE IF yes_reserve - RemoveYesAmount(lp_tokens) = 0
            \/ no_reserve - RemoveNoAmount(lp_tokens) = 0
        THEN "cannot drain pool completely"
    ELSE IF ~TransferOk(Amm, RemoveYesAmount(lp_tokens) + RemoveNoAmount(lp_tokens))
        THEN "Token transfer failed"
    ELSE "Ok"

remove_liquidity_result(provider, lp_tokens) ==
    IF lp_tokens = 0 THEN "lp tokens must be positive"
    ELSE IF ~pool_exists THEN "pool does not exist"
    ELSE IF LpBalance(provider) < lp_tokens THEN "insufficient lp tokens"
    ELSE IF ArithmeticOverflow(RemoveExact(lp_tokens)) THEN "arithmetic overflow"
    ELSE IF RemoveYesAmount(lp_tokens) = 0 \/ RemoveNoAmount(lp_tokens) = 0
        THEN "withdrawal amount too small"
    ELSE IF yes_reserve - RemoveYesAmount(lp_tokens) = 0
            \/ no_reserve - RemoveNoAmount(lp_tokens) = 0
        THEN "cannot drain pool completely"
    ELSE IF ~TransferOk(Amm, RemoveYesAmount(lp_tokens) + RemoveNoAmount(lp_tokens))
        THEN "Token transfer failed"
    ELSE "Ok"

\* the LP ledger left as it is when LP tokens are redeemed
BurnLp_keep(provider, lp_tokens) == lp_balance

\* the LP ledger after lp_tokens of the provider are burned: an entry that
\* reaches 0 is removed
BurnLp(provider, lp_tokens) ==
    [x \in (IF LpBalance(provider) - lp_tokens = 0
            THEN DOMAIN lp_balance \ {provider} ELSE DOMAIN lp_balance) |->
        IF x = provider THEN LpBalance(provider) - lp_tokens ELSE lp_balance[x]]

remove_liquidity(provider, lp_tokens) ==
    /\ lp_calls < MaxLpCalls
    /\ remove_liquidity_result(provider, lp_tokens) = "Ok"
    /\ set_pool_reserves(yes_reserve - RemoveYesAmount(lp_tokens),
                         no_reserve - RemoveNoAmount(lp_tokens))
    /\ lp_balance' = BurnLp(provider, lp_tokens)
    /\ lp_supply' = lp_supply - lp_tokens
    /\ balance' = Transfer(Amm, provider,
                           RemoveYesAmount(lp_tokens) + RemoveNoAmount(lp_tokens))
    /\ last_call' = Call("remove_liquidity", provider, 0, lp_tokens,
                         RemoveYesAmount(lp_tokens) + RemoveNoAmount(lp_tokens))
    /\ lp_calls' = lp_calls + 1
    /\ UNCHANGED <<pool_exists, user_shares, trade_count>>
    /\ UNCHANGED <<now, oracleVars, marketVars, transfer_failed>>

\* get_odds returning the two quotients as they are
OddsAdjusted_raw(yes_odds, no_odds) == <<yes_odds, no_odds>>

\* the correction of get_odds that makes the pair sum to 10000
OddsAdjusted(yes_odds, no_odds) ==
    IF yes_odds + no_odds # 10000
    THEN IF yes_odds >= no_odds
         THEN <<yes_odds + (10000 - (yes_odds + no_odds)), no_odds>>
         ELSE <<yes_odds, no_odds + (10000 - (yes_odds + no_odds))>>
    ELSE <<yes_odds, no_odds>>

\* get_odds pricing each outcome by its own reserve
OddsOf_direct(exists, yes, no) ==
    IF ~exists THEN <<5000, 5000>>
    ELSE IF yes = 0 /\ no = 0 THEN <<5000, 5000>>
    ELSE IF yes = 0 THEN <<0, 10000>>
    ELSE IF no = 0 THEN <<10000, 0>>
    ELSE OddsAdjusted((yes * 10000) \div (yes + no), (no * 10000) \div (yes + no))

\* get_odds on a pool with the given existence flag and reserves
OddsOf(exists, yes, no) ==
    IF ~exists THEN <<5000, 5000>>
    ELSE IF yes = 0 /\ no = 0 THEN <<5000, 5000>>
    ELSE IF yes = 0 THEN <<0, 10000>>
    ELSE IF no = 0 THEN <<10000, 0>>
    ELSE OddsAdjusted((no * 10000) \div (yes + no), (yes * 10000) \div (yes + no))

\* get_odds: read-only
get_odds == OddsOf(pool_exists, yes_reserve, no_reserve)

\* ========================================================================
\* Environment
\* ========================================================================

\* the ledger clock advances
Tick ==
    /\ now < MaxTime
    /\ now' = now + 1
    /\ UNCHANGED <<balance, oracleVars, marketVars, transfer_failed, ammVars>>

\* tokens are minted to the market contract (the pot)
mint(amount, cap) ==
    /\ TotalSupply + amount <= cap
    /\ balance' = [balance EXCEPT ![Escrow] = @ + amount]
    /\ UNCHANGED <<now, oracleVars, marketVars, transfer_failed, ammVars>>

\* ========================================================================
\* Specification of the market with its oracle
\* ========================================================================
Init ==
    /\ now = 0
    /\ balance = [a \in Accounts |-> IF a = Creator THEN CreatorFunds
                                   ELSE IF a = Provider THEN ProviderFunds ELSE 0]
    /\ required_consensus \in Thresholds
    /\ oracle_count = 0
    /\ registered = {}
    /\ vote = <<>>
    /\ voters = <<>>
    /\ market_state = STATE_OPEN
    /\ yes_pool = 0
    /\ no_pool = 0
    /\ prediction = <<>>
    /\ winning_outcome = None
    /\ winner_shares = None
    /\ loser_shares = None
    /\ transfer_failed = {}
    /\ closed_before = FALSE
    /\ commitment = <<>>
    /\ pending_count = 0
    /\ pool_exists = FALSE
    /\ yes_reserve = 0
    /\ no_reserve = 0
    /\ pool_k = 0
    /\ lp_supply = 0
    /\ lp_balance = <<>>
    /\ user_shares = [u \in Users |-> [o \in Outcomes |-> 0]]
    /\ trade_count = 0
    /\ last_call = Call("none", "none", 0, 0, 0)
    /\ lp_calls = 0

Next ==
    \/ \E o \in Oracles : register_oracle(o)
    \/ \E o \in Oracles, r \in AttestationResults : submit_attestation(o, r)
    \/ market_initialize
    \/ close_market /\ UNCHANGED closed_before
    \/ resolve_market
    \/ \E u \in Users : claim_winnings(u)
    \/ \E u \in Users, o \in Outcomes, a \in PredictionAmounts :
            test_set_prediction(u, o, a)
    \/ \E o \in Outcomes, w \in WinnerTotals, l \in LoserTotals :
            test_setup_resolution(o, w, l)
    \/ Tick
    \/ \E a \in MintAmounts : mint(a, MaxSupply)

Spec == Init /\ [][Next]_vars

\* ========================================================================
\* Specification of the market lifecycle: initialize, close, resolve and the
\* oracle votes that resolution needs, without predictions and claims
\* ========================================================================
NextLife ==
    \/ \E o \in Oracles : register_oracle(o)
    \/ \E o \in Oracles, r \in AttestationResults : submit_attestation(o, r)
    \/ market_initialize
    \/ close_market /\ closed_before' = TRUE
    \/ resolve_market
    \/ \E o \in Outcomes, w \in WinnerTotals, l \in LoserTotals :
            test_setup_resolution(o, w, l)
    \/ Tick

SpecLife == Init /\ [][NextLife]_vars

\* ========================================================================
\* Specification of the oracle alone: every entry point, four oracle nodes
\* ========================================================================
NextOracle ==
    \/ \E t \in 0..MaxThreshold : oracle_initialize(t)
    \/ \E o \in OracleNodes : register_oracle(o)
    \/ \E o \in OracleNodes, r \in AttestationResults : submit_attestation(o, r)

SpecOracle == Init /\ [][NextOracle]_vars

\* ========================================================================
\* Specification of the consensus queries: attestations and the answers of
\* check_consensus calls between them
\* ========================================================================
\* a call of check_consensus: it writes nothing; last_call keeps what the
\* call returned (result 1 for reached, outcome for the winner)
check_consensus_call ==
    /\ last_call' = Call("check_consensus", "none", check_consensus[2], 0,
                         IF check_consensus[1] THEN 1 ELSE 0)
    /\ UNCHANGED <<pool_exists, yes_reserve, no_reserve, pool_k, lp_supply,
                   lp_balance, user_shares, trade_count, lp_calls>>
    /\ UNCHANGED <<now, balance, oracleVars, marketVars, transfer_failed>>

NextConsensus ==
    \/ \E o \in OracleNodes : register_oracle(o)
    \/ \E o \in OracleNodes, r \in AttestationResults : submit_attestation(o, r)
    \/ check_consensus_call

SpecConsensus == Init /\ [][NextConsensus]_vars

\* ========================================================================
\* Specification of the payout: the claim path over wide amounts
\* ========================================================================
NextClaim ==
    \/ \E o \in Outcomes, w \in ClaimWinners, l \in ClaimLosers :
            test_setup_resolution(o, w, l)
    \/ \E u \in Claimants, o \in Outcomes, a \in ClaimAmounts :
            test_set_prediction(u, o, a)
    \/ \E u \in Claimants : claim_winnings(u)
    \/ \E a \in ClaimMints : mint(a, Max(ClaimMints))

SpecClaim == Init /\ [][NextClaim]_vars

\* ========================================================================
\* Specification of the AMM
\* ========================================================================
\* the trader who bought last sells exactly the shares that buy returned
sell_back(min_payout) ==
    /\ last_call.op = "buy_shares"
    /\ sell_shares(last_call.who, last_call.outcome, last_call.result, min_payout)

\* the provider who added liquidity last redeems exactly the LP tokens minted
redeem_minted ==
    /\ last_call.op = "add_liquidity"
    /\ remove_liquidity(last_call.who, last_call.result)

NextAMM ==
    \/ \E l \in Liquidities : create_pool(Creator, l)
    \/ \E u \in Traders, o \in Outcomes, a \in BuyAmounts, m \in MinBounds :
            trade_count < MaxTrades /\ buy_shares(u, o, a, m)
    \/ \E u \in Traders, o \in Outcomes, x \in SellShares, m \in MinBounds :
            trade_count < MaxTrades /\ sell_shares(u, o, x, m)
    \/ \E m \in MinBounds : trade_count < MaxTrades /\ sell_back(m)
    \/ \E p \in Providers, a \in AddAmounts : add_liquidity(p, a)
    \/ \E p \in Providers, t \in RemoveTokens : remove_liquidity(p, t)
    \/ redeem_minted

SpecAMM == Init /\ [][NextAMM]_vars

\* ========================================================================
\* Specification of trading alone: longer sequences of buys and sells on a
\* pool whose liquidity is not changed after its creation
\* ========================================================================
NextSwap ==
    \/ \E l \in Liquidities : create_pool(Creator, l)
    \/ \E u \in Traders, o \in Outcomes, a \in BuyAmounts, m \in MinBounds :
            trade_count < MaxSwaps /\ buy_shares(u, o, a, m)
    \/ \E u \in Traders, o \in Outcomes, x \in SellShares, m \in MinBounds :
            trade_count < MaxSwaps /\ sell_shares(u, o, x, m)
    \/ \E m \in MinBounds : trade_count < MaxSwaps /\ sell_back(m)

SpecSwap == Init /\ [][NextSwap]_vars

\* ========================================================================
\* Specification of the arithmetic at the edge of the integer width: the
\* payout and the AMM over amounts whose products cross MaxI128 and MaxU128
\* ========================================================================
NextWide ==
    \/ \E o \in Outcomes : test_setup_resolution(o, Max(ClaimWinners), Max(ClaimLosers))
    \/ \E u \in Claimants, a \in WideClaimAmounts : test_set_prediction(u, 1, a)
    \/ \E u \in Claimants : claim_winnings(u)
    \/ \E a \in ClaimMints : mint(a, Max(ClaimMints))
    \/ \E l \in WideLiquidities : create_pool(Creator, l)
    \/ \E u \in Traders, o \in Outcomes, a \in WideBuyAmounts :
            trade_count < MaxTrades /\ buy_shares(u, o, a, 0)
    \/ \E u \in Traders, o \in Outcomes, x \in WideSellShares :
            trade_count < MaxTrades /\ sell_shares(u, o, x, 0)
    \/ \E a \in WideAddAmounts : add_liquidity(Provider, a)
    \/ \E t \in WideRemoveTokens : remove_liquidity(Creator, t)

SpecWide == Init /\ [][NextWide]_vars

\* ========================================================================
\* Specification of the commit phase
\* ========================================================================

\* tokens are minted to a user, as the tests do before a commit; the supply
\* of the escrow and the users is capped
mint_user(u, amount) ==
    /\ TotalSupply + amount <= 2 * Max(CommitMints)
    /\ balance' = [balance EXCEPT ![u] = @ + amount]
    /\ UNCHANGED <<now, oracleVars, marketVars, transfer_failed, ammVars>>

NextCommit ==
    \/ \E u \in Users, a \in CommitMints : mint_user(u, a)
    \/ \E u \in Users, a \in CommitAmounts : commit_prediction(u, a)
    \/ market_initialize
    \/ close_market /\ UNCHANGED closed_before
    \/ \E o \in Outcomes, w \in WinnerTotals, l \in LoserTotals :
            test_setup_resolution(o, w, l)
    \/ Tick

SpecCommit == Init /\ [][NextCommit]_vars

\* ========================================================================
\* Specification of the pot: the claims of two users on one resolution,
\* with tokens minted to the escrow beyond the resolved total
\* ========================================================================
NextPot ==
    \/ \E u \in Users, o \in Outcomes, a \in PredictionAmounts :
            test_set_prediction(u, o, a)
    \/ \E o \in Outcomes : test_setup_resolution(o, Max(WinnerTotals), Max(LoserTotals))
    \/ \E a \in MintAmounts : mint(a, 3 * Max(MintAmounts))
    \/ \E u \in Users : claim_winnings(u)

SpecPot == Init /\ [][NextPot]_vars

\* ========================================================================
\* Specification of the resolution: stakes committed and revealed into the
\* two pools, the votes of the oracles, a pool of the AMM beside them
\* ========================================================================
NextResolve ==
    \/ \E o \in Oracles : register_oracle(o)
    \/ \E o \in Oracles, r \in Outcomes : submit_attestation(o, r)
    \/ \E u \in Claimants, a \in CommitMints : mint_user(u, a)
    \/ \E u \in Claimants, a \in CommitAmounts : commit_prediction(u, a)
    \/ \E u \in Claimants, o \in Outcomes, a \in CommitAmounts :
            reveal_prediction(u, o, a)
    \/ create_pool(Creator, Max(Liquidities))
    \/ close_market /\ UNCHANGED closed_before
    \/ resolve_market
    \/ Tick

SpecResolve == Init /\ [][NextResolve]_vars

\* ========================================================================
\* Properties
\* ========================================================================

\* C1: claim_winnings succeeds at most once per user: a user who has been
\* paid (users hold no tokens before their first claim) is never paid a
\* second time, the amount already paid stays as it is.
C1_ClaimAtMostOnce ==
    [][\A u \in Users : balance[u] > 0 => balance'[u] = balance[u]]_vars

\* C2: every successful buy_shares or sell_shares leaves the product of the
\* reserves greater than or equal to the product before the call.
C2_ProductMonotone ==
    [][trade_count' # trade_count =>
            yes_reserve' * no_reserve' >= yes_reserve * no_reserve]_vars

\* C3: the stored market state only changes Open -> Closed and
\* Closed -> Resolved; it never moves backward and never reaches Resolved
\* from Open.
C3_ForwardOnly ==
    [][\/ market_state' = market_state
       \/ market_state = STATE_OPEN /\ market_state' = STATE_CLOSED
       \/ market_state = STATE_CLOSED /\ market_state' = STATE_RESOLVED]_vars

\* C4: resolve_market can succeed only when the time has reached
\* resolution_time, the market is Closed, the oracle reports consensus and
\* the outcome is 0 or 1; before the resolution time, on a market already
\* resolved and without consensus the call aborts with its message, and a
\* successful call is the only way it changes the state.
C4_ResolveGuards ==
    /\ (ENABLED resolve_market) =>
            /\ now >= resolution_time
            /\ market_state = STATE_CLOSED
            /\ check_consensus[1]
            /\ check_consensus[2] \in Outcomes
    /\ now < resolution_time =>
            resolve_market_result = "Cannot resolve market before resolution time"
    /\ (now >= resolution_time /\ market_state = STATE_RESOLVED) =>
            resolve_market_result = "Market already resolved"
    /\ (now >= resolution_time /\ market_state = STATE_CLOSED /\ ~check_consensus[1]) =>
            resolve_market_result = "Oracle consensus not reached"
    /\ resolve_market_result # "Ok" => ~ENABLED resolve_market

\* resolve_market has resolved the market: only it stores a loser total of 0
C4_Witness ==
    /\ market_state = STATE_RESOLVED
    /\ winner_shares = Some(0)
    /\ loser_shares = Some(0)
    /\ ~ENABLED resolve_market

\* number of stored votes for an outcome
VotesFor(r) == Cardinality({o \in DOMAIN vote : vote[o] = r})

\* C5: check_consensus returns (true, o) exactly when the votes for o are at
\* least the threshold and strictly more than the votes for the other
\* outcome; otherwise (too few votes, a tie) it returns reached = false.
C5_ConsensusRule ==
    /\ \A o \in Outcomes :
        (check_consensus = <<TRUE, o>>) <=>
            (VotesFor(o) >= required_consensus /\ VotesFor(o) > VotesFor(1 - o))
    /\ (~check_consensus[1]) <=>
            (\A o \in Outcomes :
                ~(VotesFor(o) >= required_consensus /\ VotesFor(o) > VotesFor(1 - o)))

\* a tie with both sides at the threshold: consensus is not reached
C5_Witness ==
    /\ required_consensus = 2
    /\ VotesFor(0) = 2
    /\ VotesFor(1) = 2
    /\ ~check_consensus[1]

\* C6: at most one vote is recorded per oracle, a second submit_attestation
\* of an oracle that has voted is rejected with "Oracle already attested",
\* and a recorded vote never changes.
C6_VoteWriteOnce ==
    /\ [](/\ Len(voters) = Cardinality(DOMAIN vote)
          /\ \A o \in DOMAIN vote, r \in Outcomes :
                submit_attestation_result(o, r) = "Oracle already attested")
    /\ [][\A o \in DOMAIN vote : o \in DOMAIN vote' /\ vote'[o] = vote[o]]_vars

\* an oracle has voted 0, its second attestation (for 1) is rejected
C6_Witness ==
    /\ Len(voters) >= 2
    /\ \E o \in DOMAIN vote :
        /\ vote[o] = 0
        /\ submit_attestation_result(o, 1) = "Oracle already attested"
        /\ ~ENABLED submit_attestation(o, 1)

\* the checks of claim_winnings that precede the payout arithmetic pass
ClaimOpen(u) ==
    /\ market_state = STATE_RESOLVED
    /\ u \in DOMAIN prediction
    /\ ~prediction[u].claimed
    /\ winning_outcome = Some(prediction[u].outcome)

\* C7: a user is paid only in a call made while the market is Resolved, the
\* user has a prediction record and the record's outcome is the winning
\* outcome; a claim before resolution fails with "Market not resolved", a
\* user without a record with "No prediction found for user", a record on
\* the losing outcome (its claim still open: the claimed flag is tested
\* first) with "User did not predict winning outcome", and no call of a user
\* on the losing outcome succeeds.
C7_PaysOnlyWinners ==
    /\ [][\A u \in Users : balance'[u] > balance[u] =>
            /\ market_state = STATE_RESOLVED
            /\ u \in DOMAIN prediction
            /\ winning_outcome = Some(prediction[u].outcome)]_vars
    /\ [](\A u \in Users :
            /\ market_state # STATE_RESOLVED =>
                    claim_winnings_result(u) = "Market not resolved"
            /\ (market_state = STATE_RESOLVED /\ u \notin DOMAIN prediction) =>
                    claim_winnings_result(u) = "No prediction found for user"
            /\ (market_state = STATE_RESOLVED /\ u \in DOMAIN prediction
                    /\ winning_outcome # Some(prediction[u].outcome)) =>
                    /\ claim_winnings_result(u) # "Ok"
                    /\ ~prediction[u].claimed =>
                        claim_winnings_result(u) = "User did not predict winning outcome")

\* a winner has been paid while another user holds a record on the losing
\* outcome and is refused
C7_Witness ==
    /\ market_state = STATE_RESOLVED
    /\ \E u, v \in Users :
        /\ u \in DOMAIN prediction /\ prediction[u].claimed /\ balance[u] > 0
        /\ winning_outcome = Some(prediction[u].outcome)
        /\ v \in DOMAIN prediction
        /\ winning_outcome # Some(prediction[v].outcome)
        /\ balance[v] = 0
        /\ claim_winnings_result(v) = "User did not predict winning outcome"

\* the payout of the specification: floors of the exact quotients
PayoutGross(u) ==
    (prediction[u].amount * (winner_shares[1] + loser_shares[1])) \div winner_shares[1]

PayoutNet(u) == PayoutGross(u) - (PayoutGross(u) \div 10)

\* C8: every successful claim pays net = gross - floor(gross / 10) with
\* gross = floor(amount * (winners + losers) / winners), a strictly positive
\* amount; a claim with a winner total of 0 is rejected with "No winners to
\* claim", and one whose net is 0 is rejected, with "Payout amount is zero"
\* (a negative quotient, which only the test helpers can store, is refused
\* by the token transfer instead).
C8_PayoutFormula ==
    /\ [][\A u \in Claimants : balance'[u] # balance[u] =>
            /\ winner_shares[1] # 0
            /\ balance'[u] - balance[u] = PayoutNet(u)
            /\ PayoutNet(u) > 0]_vars
    /\ [](\A u \in Claimants : ClaimOpen(u) =>
            /\ winner_shares[1] = 0 =>
                    claim_winnings_result(u) = "No winners to claim"
            /\ (winner_shares[1] # 0 /\ PayoutNet(u) = 0) =>
                    /\ claim_winnings_result(u) # "Ok"
                    /\ prediction[u].amount * (winner_shares[1] + loser_shares[1])
                            * winner_shares[1] >= 0 =>
                        claim_winnings_result(u) = "Payout amount is zero")

\* the worked example: totals 1000 / 500, amount 500, paid 675
C8_Witness ==
    /\ winner_shares = Some(1000)
    /\ loser_shares = Some(500)
    /\ \E u \in Claimants :
        /\ u \in DOMAIN prediction
        /\ prediction[u].amount = 500
        /\ prediction[u].claimed
        /\ balance[u] = 675
        /\ balance[Escrow] = 1000 - 675

\* C9: the claimed flag becomes true only in a call whose token transfer to
\* the user succeeded; a call whose transfer fails leaves the flag false and
\* the balances as they were, so that a later claim can still succeed.
C9_FlagAfterTransfer ==
    /\ [][\A u \in DOMAIN prediction :
            (claim_winnings(u) /\ ~prediction[u].claimed /\ prediction'[u].claimed) =>
                /\ TransferOk(Escrow, ClaimNet(u))
                /\ ClaimNet(u) > 0
                /\ balance' = Transfer(Escrow, u, ClaimNet(u))]_vars
    /\ [][\A u \in Users : (u \in transfer_failed' /\ u \notin transfer_failed) =>
                /\ prediction' = prediction
                /\ balance' = balance
                /\ ClaimOpen(u)]_vars

\* a user whose transfer failed for want of funds in the escrow has claimed
\* later and been paid
C9_Witness ==
    \E u \in transfer_failed :
        /\ u \in DOMAIN prediction
        /\ prediction[u].claimed
        /\ balance[u] = 7
        /\ balance[Escrow] = 0

\* C10: the claimed flag of a record, once true, is never set back to false.
C10_ClaimedNeverReset ==
    [][\A u \in DOMAIN prediction :
        prediction[u].claimed =>
            (u \in DOMAIN prediction' /\ prediction'[u].claimed)]_vars

\* C11: the winning outcome and the winner and loser totals are written
\* once, at the transition to Resolved, and no later operation rewrites them.
C11_ResolutionWrittenOnce ==
    [][winning_outcome # None =>
            UNCHANGED <<winning_outcome, winner_shares, loser_shares>>]_vars

\* C12: once a pool has been created both reserves are strictly positive in
\* every reachable state.
C12_ReservesPositive ==
    pool_exists => (yes_reserve > 0 /\ no_reserve > 0)

\* C13: when a buy of X returns s shares and the buyer sells exactly s
\* shares of that outcome in the next call, the payout of the sale is
\* strictly less than X.
C13_NoArbitrage ==
    [][(/\ last_call.op = "buy_shares"
        /\ last_call'.op = "sell_shares"
        /\ last_call'.who = last_call.who
        /\ last_call'.outcome = last_call.outcome
        /\ last_call'.amount = last_call.result)
       => last_call'.result < last_call.amount]_vars

\* C14: get_odds returns a pair that sums to exactly 10000, in every
\* reachable state and for every pool: absent, balanced, skewed, with one or
\* both reserves at 0.
C14_OddsClosure ==
    /\ get_odds[1] + get_odds[2] = 10000
    /\ \A e \in BOOLEAN, y \in OddsReserves, n \in OddsReserves :
            OddsOf(e, y, n)[1] + OddsOf(e, y, n)[2] = 10000

\* a skewed pool whose two quotients sum to less than 10000
C14_Witness ==
    /\ pool_exists
    /\ yes_reserve > 0 /\ no_reserve > 0
    /\ yes_reserve # no_reserve
    /\ ((no_reserve * 10000) \div (yes_reserve + no_reserve))
        + ((yes_reserve * 10000) \div (yes_reserve + no_reserve)) < 10000
    /\ get_odds[1] + get_odds[2] = 10000

\* C16: the sum of the providers' LP balances equals the stored total LP
\* supply after any sequence of create_pool, add_liquidity and
\* remove_liquidity calls.
C16_LpLedgerConsistent ==
    SumOver(lp_balance, DOMAIN lp_balance) = lp_supply

\* two providers hold LP tokens and one of them has just redeemed some
C16_Witness ==
    /\ Cardinality(DOMAIN lp_balance) = 2
    /\ last_call.op = "remove_liquidity"
    /\ lp_supply > 0
    /\ \A p \in DOMAIN lp_balance : lp_balance[p] > 0

RoundTrip ==
    /\ last_call.op = "add_liquidity"
    /\ last_call'.op = "remove_liquidity"
    /\ last_call'.who = last_call.who
    /\ last_call'.amount = last_call.result

ReserveOf(outcome) == IF outcome = 1 THEN yes_reserve ELSE no_reserve

ReserveOpposite(outcome) == IF outcome = 1 THEN no_reserve ELSE yes_reserve

\* a step that is a successful buy_shares / sell_shares call
BuyStep == trade_count' # trade_count /\ last_call'.op = "buy_shares"

SellStep == trade_count' # trade_count /\ last_call'.op = "sell_shares"

\* C18: a successful buy_shares(outcome, amountIn) returns
\* sharesOut = floor(amountAfterFee * reserveOut / (reserveIn + amountAfterFee))
\* with amountAfterFee = amountIn - floor(amountIn * feeBps / 10000),
\* reserveOut the bought outcome's reserve and reserveIn the opposite one; it
\* adds exactly amountAfterFee to reserveIn, takes exactly sharesOut from
\* reserveOut and adds exactly sharesOut to the buyer's position.
C18_BuyEffect ==
    [][BuyStep =>
        LET o    == last_call'.outcome
            who  == last_call'.who
            fee  == (last_call'.amount * TRADING_FEE_BPS) \div 10000
            net  == last_call'.amount - fee
            sOut == (net * ReserveOf(o)) \div (ReserveOpposite(o) + net)
        IN  /\ last_call'.result = sOut
            /\ (IF o = 1 THEN no_reserve' ELSE yes_reserve') = ReserveOpposite(o) + net
            /\ (IF o = 1 THEN yes_reserve' ELSE no_reserve') = ReserveOf(o) - sOut
            /\ user_shares'[who][o] = user_shares[who][o] + sOut
            /\ user_shares'[who][1 - o] = user_shares[who][1 - o]]_vars

\* 600 paid for NO on the 1000 / 1000 pool: fee 1, 374 shares
C18_Witness ==
    /\ last_call.op = "buy_shares"
    /\ last_call.outcome = 0
    /\ last_call.amount = 600
    /\ last_call.result = 374
    /\ yes_reserve = 1000 + 599
    /\ no_reserve = 1000 - 374
    /\ user_shares[last_call.who][0] = 374

\* C19: a successful sell_shares of s shares pays
\* gross - floor(gross * feeBps / 10000) with
\* gross = floor(s * reserveOut / (reserveIn + s)), reserveIn the sold
\* outcome's reserve and reserveOut the opposite reserve before the call.
C19_SellPricingFloor ==
    [][SellStep =>
        LET o     == last_call'.outcome
            s     == last_call'.amount
            gross == (s * ReserveOpposite(o)) \div (ReserveOf(o) + s)
        IN  last_call'.result = gross - ((gross * TRADING_FEE_BPS) \div 10000)]_vars

\* C20: a successful sell_shares of s shares turns the sold outcome's reserve
\* into reserveIn + s and the opposite reserve into
\* floor(reserveIn * reserveOut / (reserveIn + s)); the decrease of the
\* opposite reserve is the gross payout, of which the seller receives the
\* part net of the fee; the seller's position decreases by exactly s. On the
\* pool (1000, 1000) a sale of 50 YES pays 48 and leaves (1050, 952).
C20_SellEffect ==
    /\ [][SellStep =>
            LET o     == last_call'.outcome
                who   == last_call'.who
                s     == last_call'.amount
                opp   == (ReserveOf(o) * ReserveOpposite(o)) \div (ReserveOf(o) + s)
                gross == ReserveOpposite(o) - opp
            IN  /\ (IF o = 1 THEN yes_reserve' ELSE no_reserve') = ReserveOf(o) + s
                /\ (IF o = 1 THEN no_reserve' ELSE yes_reserve') = opp
                /\ last_call'.result = gross - ((gross * TRADING_FEE_BPS) \div 10000)
                /\ balance'[Amm] = balance[Amm] - last_call'.result
                /\ user_shares'[who][o] = user_shares[who][o] - s
                /\ user_shares'[who][1 - o] = user_shares[who][1 - o]]_vars
    /\ [](calculate_payout(1000, 1000, 1, 50) = 48 /\ 1000 - 48 = 952)

\* 374 NO shares sold into the 1599 / 626 pool: gross 599 leaves the YES
\* reserve, the seller receives 598
C20_Witness ==
    /\ last_call.op = "sell_shares"
    /\ last_call.outcome = 0
    /\ last_call.amount = 374
    /\ last_call.result = 598
    /\ yes_reserve = 1000
    /\ no_reserve = 1000
    /\ user_shares[last_call.who][0] = 0

\* C21: sell_shares succeeds only if the seller's stored position for the
\* sold outcome is at least the number of shares sold, and is rejected with
\* 'Insufficient shares balance' otherwise; no position ever falls below
\* zero, and a user without shares of an outcome receives no sell payout.
C21_SellNeedsBalance ==
    /\ [][SellStep =>
            /\ user_shares[last_call'.who][last_call'.outcome] >= last_call'.amount
            /\ last_call'.amount > 0]_vars
    /\ [](\A u \in Users, o \in Outcomes : user_shares[u][o] >= 0)
    /\ [](\A u \in Users, o \in Outcomes, x \in SellShares, m \in MinBounds :
            (pool_exists /\ x > 0 /\ user_shares[u][o] < x)
                => sell_shares_result(u, o, x, m) = "Insufficient shares balance")
    /\ [][\A u \in Users :
            (user_shares[u][0] = 0 /\ user_shares[u][1] = 0)
                => balance'[u] = balance[u]]_vars

\* the seller has sold the whole position: a sale has succeeded and a further
\* sale of one share is rejected
C21_Witness ==
    /\ last_call.op = "sell_shares"
    /\ last_call.amount > 0
    /\ user_shares[last_call.who][last_call.outcome] = 0
    /\ sell_shares_result(last_call.who, last_call.outcome, 1, 0)
            = "Insufficient shares balance"

\* C22: after every successful sell_shares both reserves are greater than 0
\* (a sale that would leave a reserve at 0 is rejected).
C22_SellNeverDrains ==
    [][SellStep => (yes_reserve' > 0 /\ no_reserve' > 0)]_vars

\* C23: buy_shares is rejected whenever the computed sharesOut is less than
\* min_shares and sell_shares whenever the payout after fee is less than
\* min_payout: a buy that can succeed returns at least min_shares, a sale
\* that can succeed returns at least min_payout.
C23_SlippageBounds ==
    /\ \A u \in Traders, o \in Outcomes, a \in BuyAmounts, m \in MinBounds :
        /\ (ENABLED buy_shares(u, o, a, m)) => BuySharesOut(o, a) >= m
        /\ (a > 0 /\ pool_exists /\ yes_reserve > 0 /\ no_reserve > 0
                /\ BuySharesOut(o, a) < m)
            => buy_shares_result(u, o, a, m) = "Slippage exceeded"
    /\ \A u \in Traders, o \in Outcomes, x \in SellShares, m \in MinBounds :
        /\ (ENABLED sell_shares(u, o, x, m)) => SellPayoutAfterFee(o, x) >= m
        /\ (x > 0 /\ pool_exists /\ user_shares[u][o] >= x
                /\ SellPayoutAfterFee(o, x) < m)
            => sell_shares_result(u, o, x, m) = "Slippage exceeded"

\* after a buy that returned at least 200 shares: a buy of 2 with a minimum
\* of 200 shares and a sale of one share with a minimum payout of 200 are
\* both rejected, the same buy and sale with a minimum of 0 are accepted
C23_Witness ==
    /\ last_call.op = "buy_shares"
    /\ last_call.result >= 200
    /\ buy_shares_result(last_call.who, 0, 2, 200) = "Slippage exceeded"
    /\ buy_shares_result(last_call.who, 0, 2, 0) = "Ok"
    /\ sell_shares_result(last_call.who, last_call.outcome, 1, 200) = "Slippage exceeded"
    /\ sell_shares_result(last_call.who, last_call.outcome, 1, 0) = "Ok"

StatedOdds(exists, yes, no) ==
    IF ~exists THEN <<5000, 5000>>
    ELSE IF yes = 0 /\ no > 0 THEN <<0, 10000>>
    ELSE IF no = 0 /\ yes > 0 THEN <<10000, 0>>
    ELSE LET total     == yes + no
             yesOdds   == (no * 10000) \div total
             noOdds    == (yes * 10000) \div total
             shortfall == 10000 - (yesOdds + noOdds)
         IN  IF yesOdds >= noOdds
             THEN <<yesOdds + shortfall, noOdds>>
             ELSE <<yesOdds, noOdds + shortfall>>

AddStep == lp_calls' # lp_calls /\ last_call'.op = "add_liquidity"

RemoveStep == lp_calls' # lp_calls /\ last_call'.op = "remove_liquidity"

\* C27: add_liquidity succeeds only if the pool exists, the amount is
\* greater than 0 and the sum of the reserves after the deposit is at most
\* max_liquidity_cap; no add_liquidity call leaves the total liquidity above
\* the cap.
C27_AddWithinCap ==
    /\ [][AddStep =>
            /\ pool_exists
            /\ last_call'.amount > 0
            /\ yes_reserve + no_reserve + last_call'.amount <= MaxLiquidityCap
            /\ yes_reserve' + no_reserve' <= MaxLiquidityCap]_vars
    /\ [](\A p \in Providers, a \in AddAmounts :
            (ENABLED add_liquidity(p, a)) =>
                (pool_exists /\ a > 0
                    /\ yes_reserve + no_reserve + a <= MaxLiquidityCap))

\* liquidity has been added to the pool, trades have then carried the
\* reserves to the cap, and a further deposit of 3 is rejected
C27_Witness ==
    /\ lp_supply > 2000
    /\ Provider \in DOMAIN lp_balance
    /\ yes_reserve + no_reserve + 3 > MaxLiquidityCap
    /\ add_liquidity_result(Provider, 3) = "exceeds max liquidity cap"

C29_RemoveEffect ==
    [][RemoveStep =>
        LET who    == last_call'.who
            t      == last_call'.amount
            yesOut == (t * yes_reserve) \div lp_supply
            noOut  == (t * no_reserve) \div lp_supply
            held   == IF who \in DOMAIN lp_balance THEN lp_balance[who] ELSE 0
        IN  /\ t > 0
            /\ t <= held
            /\ yesOut > 0 /\ noOut > 0
            /\ yes_reserve - yesOut > 0 /\ no_reserve - noOut > 0
            /\ yes_reserve' = yes_reserve - yesOut
            /\ no_reserve' = no_reserve - noOut
            /\ (IF who \in DOMAIN lp_balance' THEN lp_balance'[who] ELSE 0) = held - t
            /\ lp_supply' = lp_supply - t
            /\ last_call'.result = yesOut + noOut
            /\ balance'[who] = balance[who] + yesOut + noOut]_vars

\* 100 of the creator's 2000 LP tokens redeemed from the 1000 / 1000 pool;
\* a provider without LP tokens and a redemption of a single token are
\* rejected
C29_Witness ==
    /\ last_call.op = "remove_liquidity"
    /\ last_call.who = Creator
    /\ last_call.amount = 100
    /\ last_call.result = 100
    /\ yes_reserve = 950
    /\ no_reserve = 950
    /\ lp_supply = 1900
    /\ remove_liquidity_result(Provider, 100) = "insufficient lp tokens"
    /\ remove_liquidity_result(Creator, 1) = "withdrawal amount too small"

\* C30: close_market succeeds only when the time has reached closing_time
\* and the market is Open, and it then sets the state to Closed; it aborts
\* before the closing time and on a Closed or Resolved market; it succeeds
\* at most once per market.
C30_CloseOnce ==
    /\ []((ENABLED close_market) =>
            (now >= closing_time /\ market_state = STATE_OPEN))
    /\ [](now < closing_time =>
            close_market_result = "Cannot close market before closing time")
    /\ []((now >= closing_time /\ market_state # STATE_OPEN) =>
            close_market_result = "Market not in OPEN state")
    /\ [][(market_state = STATE_OPEN /\ market_state' = STATE_CLOSED) =>
            (now >= closing_time /\ ~closed_before)]_vars

\* C31: submit_attestation records a vote only if the submitting oracle is
\* registered and the attested result is 0 or 1; an unregistered address is
\* rejected with 'Oracle not registered' and a result above 1 with 'Invalid
\* attestation result'; every stored vote is 0 or 1 and was cast by a
\* registered oracle.
C31_VotesValid ==
    /\ \A o \in DOMAIN vote : vote[o] \in {0, 1} /\ o \in registered
    /\ \A o \in OracleNodes, r \in AttestationResults :
        /\ (ENABLED submit_attestation(o, r)) => (o \in registered /\ r \in {0, 1})
        /\ o \notin registered => submit_attestation_result(o, r) = "Oracle not registered"
        /\ (o \in registered /\ r > 1)
            => submit_attestation_result(o, r) = "Invalid attestation result"

\* two registered oracles have voted 0 and 1, and an address that is not
\* registered is turned away
C31_Witness ==
    /\ \E a, b \in DOMAIN vote : vote[a] = 0 /\ vote[b] = 1
    /\ \E o \in OracleNodes \ registered :
            submit_attestation_result(o, 1) = "Oracle not registered"
    /\ \E o \in registered \ DOMAIN vote :
            submit_attestation_result(o, 2) = "Invalid attestation result"

\* C32: register_oracle rejects a registration when 10 oracles are already
\* registered ('Maximum oracle limit reached') and when the identity is
\* already registered ('Oracle already registered'); in every reachable
\* state the stored oracle count equals the number of distinct registered
\* oracles and is at most 10.
C32_OracleCount ==
    /\ oracle_count = Cardinality(registered)
    /\ oracle_count <= MaxOracles
    /\ \A o \in OracleNodes :
        /\ oracle_count >= MaxOracles
            => register_oracle_result(o) = "Maximum oracle limit reached"
        /\ (oracle_count < MaxOracles /\ o \in registered)
            => register_oracle_result(o) = "Oracle already registered"

\* C33: consensus is recomputed on every check_consensus call and no decision
\* is persisted: the answer of a call is the tally of the votes stored at the
\* time of the call, whatever an earlier call returned, so a check_consensus
\* that returned (true, A) can be followed, after further submit_attestation
\* calls, by a check_consensus that returns a different answer.
C33_ConsensusRecomputed ==
    [][(last_call'.op = "check_consensus" /\ last_call' # last_call) =>
        /\ UNCHANGED oracleVars
        /\ \A o \in Outcomes :
            (last_call'.result = 1 /\ last_call'.outcome = o) <=>
                (VotesFor(o) >= required_consensus /\ VotesFor(o) > VotesFor(1 - o))
        /\ last_call'.result = 0 =>
                last_call'.outcome = 0]_vars

\* the last check_consensus call returned (true, 1); more attestations came
\* in, and a call made now returns (true, 0)
C33_Witness ==
    /\ last_call.op = "check_consensus"
    /\ last_call.result = 1
    /\ last_call.outcome = 1
    /\ check_consensus = <<TRUE, 0>>

C35_CommitGuards ==
    /\ pending_count = Cardinality(DOMAIN commitment)
    /\ \A u \in Users, a \in CommitAmounts :
        /\ (ENABLED commit_prediction(u, a)) =>
            /\ market_state = STATE_OPEN
            /\ now < closing_time
            /\ a > 0
            /\ u \notin DOMAIN commitment
        /\ market_state # STATE_OPEN
            => commit_prediction_result(u, a) = "InvalidMarketState"
        /\ (market_state = STATE_OPEN /\ now >= closing_time)
            => commit_prediction_result(u, a) = "MarketClosed"
        /\ (market_state = STATE_OPEN /\ now < closing_time /\ a <= 0)
            => commit_prediction_result(u, a) = "InvalidAmount"
        /\ (market_state = STATE_OPEN /\ now < closing_time /\ a > 0
                /\ u \in DOMAIN commitment)
            => commit_prediction_result(u, a) = "DuplicateCommit"

\* recorded amounts of the users whose record is on the winning outcome
WinningAmounts ==
    SumOver([u \in DOMAIN prediction |-> prediction[u].amount],
            {u \in DOMAIN prediction : prediction[u].outcome = winning_outcome[1]})

\* C36: escrow solvency: on a resolved market on which the recorded amounts
\* of the winning users sum to at most the winner total, the net payouts of
\* claim_winnings (users hold nothing but what claims paid them) sum to at
\* most the winner total plus the loser total.
C36_EscrowSolvent ==
    (/\ market_state = STATE_RESOLVED
     /\ winning_outcome # None /\ winner_shares # None /\ loser_shares # None
     /\ WinningAmounts <= winner_shares[1])
        => SumOver(balance, Users) <= winner_shares[1] + loser_shares[1]

\* C37: the constant-product check of buy_shares can never fail: on every
\* pool with both reserves above 0, for every outcome and every amount above
\* 0, the product of the new reserves is at least the old product, so no
\* call of buy_shares ends with 'invariant violation'.
C37_BuyCheckNeverFails ==
    \A u \in Traders, o \in Outcomes, a \in BuyAmounts :
        /\ \A m \in MinBounds : buy_shares_result(u, o, a, m) # "invariant violation"
        /\ (pool_exists /\ yes_reserve > 0 /\ no_reserve > 0 /\ a > 0) =>
            BuyNewReserves(o, a)[1] * BuyNewReserves(o, a)[2]
                >= yes_reserve * no_reserve

\* a pool moved off balance by a buy, on which a further buy of each
\* outcome passes the check
C37_Witness ==
    /\ last_call.op = "buy_shares"
    /\ yes_reserve # no_reserve
    /\ \A o \in Outcomes : buy_shares_result("u1", o, 600, 0) = "Ok"

C39_TallyConsistent ==
    /\ \A i, j \in 1..Len(voters) : i # j => voters[i] # voters[j]
    /\ {voters[i] : i \in 1..Len(voters)} = DOMAIN vote
    /\ CountVotes(voters).yes + CountVotes(voters).no = Len(voters)
    /\ Len(voters) = Cardinality(DOMAIN vote)
    /\ CountVotes(voters).yes = VotesFor(1)
    /\ CountVotes(voters).no = VotesFor(0)

\* three oracles have voted, one for YES and two for NO
C39_Witness ==
    /\ Len(voters) = 3
    /\ CountVotes(voters).yes = 1
    /\ CountVotes(voters).no = 2

\* C40: a successful claim_winnings changes only the claimed flag of the
\* claimant and the token balances of the escrow and of that user: the
\* market state, the winning outcome, the totals, the pools, the outcome and
\* amount of the record and the records and balances of the other users stay
\* as they were; the amount paid is given by the record and the totals
\* alone, whatever other users have claimed before.
C40_ClaimFrame ==
    [][\A u \in Users : balance'[u] # balance[u] =>
        /\ UNCHANGED <<market_state, winning_outcome, winner_shares, loser_shares,
                       yes_pool, no_pool, commitment, pending_count>>
        /\ DOMAIN prediction' = DOMAIN prediction
        /\ prediction'[u] = [prediction[u] EXCEPT !.claimed = TRUE]
        /\ \A v \in DOMAIN prediction \ {u} : prediction'[v] = prediction[v]
        /\ \A a \in Accounts \ {Escrow, u} : balance'[a] = balance[a]
        /\ balance'[u] - balance[u] = PayoutNet(u)
        /\ balance'[Escrow] - balance[Escrow] = -PayoutNet(u)]_vars

\* both users have claimed on the totals 10 / 5, one after the other, and
\* each was paid 7
C40_Witness ==
    /\ winner_shares = Some(10) /\ loser_shares = Some(5)
    /\ \A u \in Users :
        /\ u \in DOMAIN prediction
        /\ prediction[u].claimed
        /\ balance[u] = 7

====
